---- MODULE Spec2Model ----
(***************************************************************************)
(* Model of snadi: the entity mapper and relation hydrator of              *)
(* packages/core (mapArrayToEntity, loadRelationsForArray) and the knex    *)
(* adapter of packages/knex (KnexOrm.getAll / loadMany, getOne / loadOne,  *)
(* hasOne, hasMany).                                                       *)
(*                                                                         *)
(* One behaviour is one call against a database whose tables are drawn     *)
(* from bounded sets: KnexOrm.getAll(entityDef, relations) under Spec,     *)
(* loadMany with the caller's own promise under SpecMany, and getOne /     *)
(* loadOne under SpecOne; loadRelationsForArray on mapped books or         *)
(* authors under SpecHydrate, on one level of relationships whose loads    *)
(* deliver their rows as a collection, a promise or an asynchronous        *)
(* sequence under SpecDelivery, and mapArrayToEntity alone under SpecMap.  *)
(* An entity is an                                                         *)
(* object on a heap: a reference <<c, i>> names the i-th entity mapped at  *)
(* level c (the root level, or the relationship entry that loaded it), and *)
(* heap[ref] is the object, one namespace of properties for the row's      *)
(* columns and for the relationship properties written by hydration.       *)
(* Every await of the code is a point where another branch may run, and    *)
(* the code between two awaits is one action.                              *)
(***************************************************************************)
EXTENDS Integers, Sequences, FiniteSets, TLC

\* ------------------------------------------------------------------ bounds
MaxBooks == 2
MaxAuthors == 1
MaxDetails == 1
MaxFaults == 1
MaxDuplicates == 2

\* ------------------------------------------------------- property values
\* The value of a relationship property: null, undefined, one entity
\* reference, or a list of entity references.
NullV == [tag |-> "null", refs |-> <<>>]
UndefinedV == [tag |-> "undefined", refs |-> <<>>]
OneV(r) == [tag |-> "one", refs |-> <<r>>]
ManyV(rs) == [tag |-> "many", refs |-> rs]

\* --------------------------------------------------------- relation tree
\* The relationships of the test schema, arranged as the relation tree of
\* the "Query optimization" test.  parent 0 is the level of the bookstores.
\* A call's relations map is the part of this tree below its root level.
Rel ==
  << [key |-> "books", kind |-> "many", localField |-> "id",
      otherTable |-> "books", otherField |-> "bookstore_id", parent |-> 0],
     [key |-> "details", kind |-> "one", localField |-> "id",
      otherTable |-> "book_details", otherField |-> "book_id", parent |-> 1],
     [key |-> "author", kind |-> "one", localField |-> "author_id",
      otherTable |-> "authors", otherField |-> "id", parent |-> 1],
     [key |-> "books", kind |-> "many", localField |-> "id",
      otherTable |-> "books", otherField |-> "author_id", parent |-> 3] >>

Nodes == DOMAIN Rel
Levels == {0} \cup Nodes

\* The table whose entities live at level c.
LevelTable(c) == IF c = 0 THEN "bookstores" ELSE Rel[c].otherTable

RECURSIVE Ancestors(_)
Ancestors(n) == IF n = 0 THEN {} ELSE {Rel[n].parent} \cup Ancestors(Rel[n].parent)

\* The relations maps a call rooted at level r can be given: the sets of
\* entries below r in which every entry hangs from r or from another entry.
RelationsMaps(r) ==
  { S \in SUBSET Nodes :
      \A n \in S : /\ r \in Ancestors(n)
                   /\ Rel[n].parent = r \/ Rel[n].parent \in S }

\* ------------------------------------------------------------- test data
SeqsUpTo(S, k) == UNION { [1..n -> S] : n \in 0..k }

\* The values a foreign-key column takes: bookstore and author ids, book ids.
KeyValues == {1, 2}

StoreTables == { [i \in 1..n |-> [id |-> i]] : n \in {0} \cup KeyValues }
AuthorTables == { [i \in 1..n |-> [id |-> i]] : n \in 0..MaxAuthors }
BookTables ==
  { [i \in DOMAIN f |-> [id |-> i, bookstore_id |-> f[i][1], author_id |-> f[i][2]]] :
      f \in SeqsUpTo(KeyValues \X KeyValues, MaxBooks) }
DetailTables ==
  { [i \in DOMAIN f |-> [id |-> i, book_id |-> f[i]]] :
      f \in SeqsUpTo(KeyValues, MaxDetails) }

\* The tables a call reads: the root's and those of its relationships.
UsedTables(r, rels) == {LevelTable(r)} \cup { Rel[n].otherTable : n \in rels }

VARIABLES
  db,          \* table name -> sequence of rows
  root,        \* the level of the entities getAll fetches
  relations,   \* the entries of the relations map (a set of Nodes)
  given,       \* FALSE when getAll is called without a relations argument
  phase,       \* where loadMany is: "fetch", "map", "hydrate", "returned"
  result,      \* the promise getAll returns: "pending", "resolved", "rejected"
  raw,         \* level -> the raw rows fetched for it
  loaded,      \* level -> the references of the entities mapped so far
  heap,        \* reference -> object (property name -> value)
  pc,          \* entry -> where its branch is
  call,        \* level -> state of the loadRelationsForArray call on its entities
  reason,      \* level -> the error the call rejected with
  err,         \* entry -> the error its branch failed with
  loadLog,     \* entry -> the argument arrays its load was invoked with
  keys,        \* entry -> the distinct join keys its pending load filters on
  queries,     \* number of database queries issued
  nfaults,     \* number of failures injected so far
  op,          \* the entry point called: "getAll", "loadMany" or "getOne"
  builder,     \* getOne: the ids the builder's whereIn("id", ...) selects
  shape,       \* what the promise given to loadMany / loadOne resolves to:
               \* "array" (a select query) or "row" (a first() query)
  value,       \* the value the returned promise resolved with
  fetchLog,    \* entry -> the whereIn key lists its load has fetched with
  delivery     \* entry -> how its load hands over its rows: "promise" (of a
               \* collection), "sync" (a collection) or "iterable" (an
               \* asynchronous sequence yielding the rows one by one)

vars == << db, root, relations, given, phase, result, raw, loaded, heap, pc,
           call, reason, err, loadLog, keys, queries, nfaults, op, builder,
           shape, value, fetchLog, delivery >>

\* An error value names the entry (0: the root fetch or mapping) and the
\* step that raised it.
NoError == [at |-> 0, stage |-> "none"]
Error(n, stage) == [at |-> n, stage |-> stage]

Range(s) == { s[i] : i \in DOMAIN s }

\* ------------------------------------------------------------ knex adapter
\* knex(table).whereIn(field, ks).select(): the rows whose field is one of
\* ks, in table order.
whereIn(rows, field, ks) == SelectSeq(rows, LAMBDA row : row[field] \in ks)

\* toEntityClass of the tests: a new object carrying the row's columns.
toEntity(row) == row

\* hasOne.load / hasMany.load: the distinct join keys of the local entities.
LoadKeys(h, localEntities, localField) ==
  { h[localEntities[i]][localField] : i \in DOMAIN localEntities }

\* A key list built without the Set: one value per local entity.
ArrayNoSet(values) == values

\* Array.from(new Set(values)): the distinct values, each at the place of
\* its first occurrence.
RECURSIVE ArrayFromSet(_)
ArrayFromSet(values) ==
  IF values = << >> THEN << >>
  ELSE LET front == ArrayFromSet(SubSeq(values, 1, Len(values) - 1))
           v == values[Len(values)]
       IN  IF v \in Range(front) THEN front ELSE Append(front, v)

\* hasOne.load / hasMany.load: the key list handed to whereIn.
LoadKeyList(h, localEntities, localField) ==
  ArrayFromSet([ i \in DOMAIN localEntities |-> h[localEntities[i]][localField] ])

\* A load that fetches once per distinct key instead of once per call.
LoadFetchesPerKey(ks) == Cardinality(ks)

\* A load without the keys.size === 0 return: it always queries.
LoadFetchesAlways(ks) == 1

\* The number of fetches a load issues for its keys.
LoadFetches(ks) == IF ks = {} THEN 0 ELSE 1

\* The rows a load returns for its keys.
LoadRows(d, ks, table, field) ==
  IF ks = {} THEN << >> ELSE whereIn(d[table], field, ks)

\* A map that keeps the entity first set for a key (first write wins).
RECURSIVE hasOneByKeyFirstWins(_, _, _, _)
hasOneByKeyFirstWins(h, otherEntities, otherField, i) ==
  IF i = 0 THEN << >>
  ELSE hasOneByKeyFirstWins(h, otherEntities, otherField, i - 1)
         @@ (h[otherEntities[i]][otherField] :> otherEntities[i])

\* hasOne.attach: otherEntitiesByKey after the first i set() calls.
RECURSIVE hasOneByKey(_, _, _, _)
hasOneByKey(h, otherEntities, otherField, i) ==
  IF i = 0 THEN << >>
  ELSE (h[otherEntities[i]][otherField] :> otherEntities[i])
         @@ hasOneByKey(h, otherEntities, otherField, i - 1)

\* An accessor without the "?? null": a miss yields undefined.
hasOneGetNoDefault(byKey, k) == IF k \in DOMAIN byKey THEN OneV(byKey[k]) ELSE UndefinedV

\* hasOne.attach: the accessor  get(localEntity[localField]) ?? null.
hasOneGet(byKey, k) == IF k \in DOMAIN byKey THEN OneV(byKey[k]) ELSE NullV

\* A grouping that puts each entity in front of its list (unshift for push).
RECURSIVE hasManyByKeyUnshift(_, _, _, _)
hasManyByKeyUnshift(h, otherEntities, otherField, i) ==
  IF i = 0 THEN << >>
  ELSE LET m == hasManyByKeyUnshift(h, otherEntities, otherField, i - 1)
           k == h[otherEntities[i]][otherField]
           old == IF k \in DOMAIN m THEN m[k] ELSE << >>
       IN  (k :> (<< otherEntities[i] >> \o old)) @@ m

\* hasMany.attach: otherEntitiesByKey after the first i push() calls.
RECURSIVE hasManyByKey(_, _, _, _)
hasManyByKey(h, otherEntities, otherField, i) ==
  IF i = 0 THEN << >>
  ELSE LET m == hasManyByKey(h, otherEntities, otherField, i - 1)
           k == h[otherEntities[i]][otherField]
           old == IF k \in DOMAIN m THEN m[k] ELSE << >>
       IN  (k :> Append(old, otherEntities[i])) @@ m

\* An accessor with "?? null" for "?? []": a miss yields null.
hasManyGetNull(byKey, k) == IF k \in DOMAIN byKey THEN ManyV(byKey[k]) ELSE NullV

\* hasMany.attach: the accessor  get(localEntity[localField]) ?? [].
hasManyGet(byKey, k) == IF k \in DOMAIN byKey THEN ManyV(byKey[k]) ELSE ManyV(<< >>)

\* attachFn(entity) of entry n, for the attach result over otherEntities.
Accessor(n, h, otherEntities, entity) ==
  LET k == h[entity][Rel[n].localField]
      len == Len(otherEntities)
  IN  IF Rel[n].kind = "one"
      THEN hasOneGet(hasOneByKey(h, otherEntities, Rel[n].otherField, len), k)
      ELSE hasManyGet(hasManyByKey(h, otherEntities, Rel[n].otherField, len), k)

\* ---------------------------------------------------- loadRelationsForArray
\* A hydrator that follows the relationships of the level's entity type
\* (the data graph) instead of the entries of the map it was given.
SubrelationsByTable(rels, c) ==
  { n \in rels : LevelTable(Rel[n].parent) = LevelTable(c) }

\* The entries of the relations map of the call on level c.
Subrelations(rels, c) == { n \in rels : Rel[n].parent = c }

\* A hydrator that invokes load once per entity (the N+1 pattern).
LoadCallsPerEntity(entities) == [ i \in DOMAIN entities |-> << entities[i] >> ]

\* The argument arrays load is invoked with for the entities of a level.
LoadCalls(entities) == << entities >>

\* A hydrator that loops over the keys with sequential awaits: only the
\* first key's callback runs when the call starts.
StartedFirstOnly(rels, c) ==
  { n \in Subrelations(rels, c) : \A m \in Subrelations(rels, c) : n <= m }

\* A hydrator that puts off every callback but the last key's: the other
\* loads are not invoked when the call starts.
StartedLastOnly(rels, c) ==
  { n \in Subrelations(rels, c) : \A m \in Subrelations(rels, c) : n >= m }

\* The entries whose async callback runs up to its first await when the
\* call on level c starts: map() runs every callback.
Started(rels, c) == Subrelations(rels, c)

\* Promise.any for Promise.all: resolved as soon as one branch is done.
PromiseAny(status, branches) ==
  IF status # "pending" THEN status
  ELSE IF "done" \in branches \/ branches = {} THEN "resolved"
  ELSE IF branches \subseteq {"failed"} THEN "rejected"
  ELSE "pending"

\* Promise.allSettled for Promise.all: resolved once every branch has ended,
\* failed or not.
PromiseAllSettled(status, branches) ==
  IF status # "pending" THEN status
  ELSE IF branches \subseteq {"done", "failed"} THEN "resolved"
  ELSE "pending"

\* Promise.all over the branches of a call: rejected as soon as one branch
\* has failed, resolved once all are done.
PromiseAll(status, branches) ==
  IF status # "pending" THEN status
  ELSE IF "failed" \in branches THEN "rejected"
  ELSE IF branches \subseteq {"done"} THEN "resolved"
  ELSE "pending"

\* A loop that writes the property only on the entities with a related row.
WritePropsMatchingOnly(h, n, entities, otherEntities) ==
  [ r \in DOMAIN h |->
      IF r \in Range(entities) /\ Accessor(n, h, otherEntities, r).refs # << >>
      THEN (Rel[n].key :> Accessor(n, h, otherEntities, r)) @@ h[r]
      ELSE h[r] ]

\* A loop that writes every relationship under one shared property.
WritePropsSharedKey(h, n, entities, otherEntities) ==
  [ r \in DOMAIN h |->
      IF r \in Range(entities)
      THEN ("related" :> Accessor(n, h, otherEntities, r)) @@ h[r]
      ELSE h[r] ]

\* An assignment loop that also clears the join key it has read.
WritePropsClearingKey(h, n, entities, otherEntities) ==
  [ r \in DOMAIN h |->
      IF r \in Range(entities)
      THEN (Rel[n].key :> Accessor(n, h, otherEntities, r))
             @@ (Rel[n].localField :> 0) @@ h[r]
      ELSE h[r] ]

\* An assignment loop that replaces each entity's properties by its row's
\* columns and the branch's own key, dropping what its siblings wrote.
WritePropsReplacingEntity(h, n, entities, otherEntities) ==
  [ r \in DOMAIN h |->
      IF r \in Range(entities)
      THEN (Rel[n].key :> Accessor(n, h, otherEntities, r))
             @@ [ k \in DOMAIN h[r] \ { Rel[m].key : m \in Nodes } |-> h[r][k] ]
      ELSE h[r] ]

\* The for loop over entities: entity[key] = attachFn(entity).
WriteProps(h, n, entities, otherEntities) ==
  [ r \in DOMAIN h |->
      IF r \in Range(entities)
      THEN (Rel[n].key :> Accessor(n, h, otherEntities, r)) @@ h[r]
      ELSE h[r] ]

\* The state of the call on level c once the branches are in states newpc.
CallAfter(c, newpc) ==
  PromiseAll(call[c], { newpc[m] : m \in Subrelations(relations, c) })

\* A call that rejects with an error of its own, wrapped around the branch's.
ReasonAfterWrapped(c, newpc, e) ==
  IF call[c] = "pending" /\ CallAfter(c, newpc) = "rejected"
  THEN Error(c, "wrapped") ELSE reason[c]

\* The call on level c rejects in this step with the error e of a branch.
ReasonAfter(c, newpc, e) ==
  IF call[c] = "pending" /\ CallAfter(c, newpc) = "rejected" THEN e ELSE reason[c]

\* The shapes of an awaited fetch result.
Shapes == {"array", "row"}

\* A shape check that takes nothing for an array.
IsArrayNever(sh) == FALSE

\* A shape check that takes everything for an array.
IsArrayAlways(sh) == TRUE

\* Array.isArray(rows).
IsArray(sh) == sh = "array"

\* A loop that puts each new element in front.
Unshift(arr, x) == << x >> \o arr

\* result.push(x) / loadedEntities.push(x).
Push(arr, x) == Append(arr, x)

\* An entity call that hands back the array instead of its element 0.
ReturnValueArray(o, entities) == ManyV(entities)

\* What the entry point hands back: getAll the entity array itself, getOne
\* (through loadRelationsForEntity) element 0 of the one-element array.
\* A call that returns its entities in the opposite order.
ReturnValueReversed(o, entities) ==
  ManyV([ i \in DOMAIN entities |-> entities[Len(entities) + 1 - i] ])

ReturnValue(o, entities) ==
  IF o = "getOne" THEN OneV(entities[1]) ELSE ManyV(entities)

\* The whereIn key lists the load of entry n fetches with when it is awaited:
\* none when there is no key, else one list for its one query.
LoadFetchLists(n) ==
  IF keys[n] = {} THEN << >>
  ELSE << LoadKeyList(heap, loadLog[n][Len(loadLog[n])], Rel[n].localField) >>

\* ------------------------------------------------------------------- Init
\* The levels a call can be rooted at: those some relationship starts from.
Roots == { Rel[n].parent : n \in Nodes }

\* The databases a call is run against; a table the call never reads is
\* left empty.
Databases(used) ==
  { [bookstores |-> s, books |-> b, book_details |-> d, authors |-> a] :
      s \in IF "bookstores" \in used THEN StoreTables ELSE {<< >>},
      b \in IF "books" \in used THEN BookTables ELSE {<< >>},
      d \in IF "book_details" \in used THEN DetailTables ELSE {<< >>},
      a \in IF "authors" \in used THEN AuthorTables ELSE {<< >>} }

\* Some relationship of the map joins on the column of the table, as the
\* localField of the level it starts from or the otherField of its own.
Reads(rels, table, col) ==
  \E n \in rels :
    \/ Rel[n].otherTable = table /\ Rel[n].otherField = col
    \/ LevelTable(Rel[n].parent) = table /\ Rel[n].localField = col

\* The databases of a call rooted at r with the relations map rels: a
\* foreign-key column of books no relationship of the map joins on holds 1
\* in every row.
CallDatabases(r, rels) ==
  { d \in Databases(UsedTables(r, rels)) :
      \A i \in DOMAIN d.books :
        \A col \in {"bookstore_id", "author_id"} :
          ~Reads(rels, "books", col) => d.books[i][col] = 1 }

Init ==
  /\ root \in Roots
  /\ relations \in RelationsMaps(root)
  /\ given \in (IF relations = {} THEN BOOLEAN ELSE {TRUE})
  /\ db \in CallDatabases(root, relations)
  /\ phase = "fetch"
  /\ result = "pending"
  /\ raw = [c \in Levels |-> << >>]
  /\ loaded = [c \in Levels |-> << >>]
  /\ heap = << >>
  /\ pc = [n \in Nodes |-> "idle"]
  /\ call = [c \in Levels |-> "none"]
  /\ reason = [c \in Levels |-> NoError]
  /\ err = [n \in Nodes |-> NoError]
  /\ loadLog = [n \in Nodes |-> << >>]
  /\ keys = [n \in Nodes |-> {}]
  /\ queries = 0
  /\ nfaults = 0
  /\ op = "getAll"
  /\ builder = {}
  /\ shape = "array"
  /\ value = UndefinedV
  /\ fetchLog = [n \in Nodes |-> << >>]
  /\ delivery = [n \in Nodes |-> "promise"]

\* ------------------------------------------------- KnexOrm.getAll / loadMany
\* getAll: the query on the root table is issued and loadMany awaits it;
\* loadMany throws when what it awaited is not an array.
Fetch ==
  /\ phase = "fetch"
  /\ queries' = queries + 1
  /\ IF IsArray(shape)
     THEN /\ raw' = [raw EXCEPT ![root] = db[LevelTable(root)]]
          /\ phase' = "map"
          /\ UNCHANGED << result, reason >>
     ELSE /\ phase' = "returned"
          /\ result' = "rejected"
          /\ reason' = [reason EXCEPT ![root] = Error(0, "shape")]
          /\ UNCHANGED raw
  /\ UNCHANGED << op, builder, shape, db, root, relations, given, loaded,
                  heap, pc, call, err, loadLog, keys, nfaults >>
  /\ UNCHANGED << value, fetchLog >>
  /\ UNCHANGED delivery

\* getAll: the query on the root table fails.
FetchFail ==
  /\ phase = "fetch"
  /\ nfaults < MaxFaults
  /\ nfaults' = nfaults + 1
  /\ queries' = queries + 1
  /\ phase' = "returned"
  /\ result' = "rejected"
  /\ reason' = [reason EXCEPT ![root] = Error(0, "fetch")]
  /\ UNCHANGED << op, builder, shape, db, root, relations, given, raw, loaded, heap, pc, call,
                  err, loadLog, keys >>
  /\ UNCHANGED << value, fetchLog >>
  /\ UNCHANGED delivery

\* mapArrayToEntity: one iteration, result.push(await toEntity(data)).
MapArrayStep ==
  /\ phase = "map"
  /\ Len(loaded[root]) < Len(raw[root])
  /\ LET i == Len(loaded[root]) + 1
         ref == << root, i >>
     IN  /\ loaded' = [loaded EXCEPT ![root] = Push(@, ref)]
         /\ heap' = (ref :> toEntity(raw[root][i])) @@ heap
  /\ UNCHANGED << op, builder, shape, db, root, relations, given, phase, result, raw, pc, call,
                  reason, err, loadLog, keys, queries, nfaults >>
  /\ UNCHANGED << value, fetchLog >>
  /\ UNCHANGED delivery

\* mapArrayToEntity: toEntity throws or rejects; loadMany rejects with it.
MapArrayFail ==
  /\ phase = "map"
  /\ Len(loaded[root]) < Len(raw[root])
  /\ nfaults < MaxFaults
  /\ nfaults' = nfaults + 1
  /\ phase' = "returned"
  /\ result' = "rejected"
  /\ reason' = [reason EXCEPT ![root] = Error(0, "toEntity")]
  /\ UNCHANGED << op, builder, shape, db, root, relations, given, raw, loaded, heap, pc, call,
                  err, loadLog, keys, queries >>
  /\ UNCHANGED << value, fetchLog >>
  /\ UNCHANGED delivery

\* The synchronous start of loadRelationsForArray(loaded[c], subrelations):
\* every started callback invokes its load and suspends at its first await.
PcAfterStart(c) ==
  [ n \in Nodes |-> IF n \in Started(relations, c) THEN "loading" ELSE pc[n] ]
LoadLogAfterStart(c) ==
  [ n \in Nodes |-> IF n \in Started(relations, c)
                    THEN loadLog[n] \o LoadCalls(loaded[c]) ELSE loadLog[n] ]
KeysAfterStart(c) ==
  [ n \in Nodes |-> IF n \in Started(relations, c)
                    THEN LoadKeys(heap, loaded[c], Rel[n].localField) ELSE keys[n] ]
CallAfterStart(c) ==
  [ call EXCEPT ![c] = PromiseAll("pending", { PcAfterStart(c)[m] :
                                      m \in Subrelations(relations, c) }) ]

\* loadMany: every row is mapped;  relations ? loadRelationsForArray(...) : entity.
MapArrayDone ==
  /\ phase = "map"
  /\ Len(loaded[root]) = Len(raw[root])
  /\ IF given
     THEN /\ phase' = "hydrate"
          /\ pc' = PcAfterStart(root)
          /\ loadLog' = LoadLogAfterStart(root)
          /\ keys' = KeysAfterStart(root)
          /\ call' = CallAfterStart(root)
          /\ result' = call'[root]
          /\ value' = IF call'[root] = "resolved"
                      THEN ReturnValue(op, loaded[root]) ELSE value
     ELSE /\ phase' = "returned"
          /\ result' = "resolved"
          /\ value' = ManyV(loaded[root])
          /\ UNCHANGED << pc, loadLog, keys, call >>
  /\ UNCHANGED << op, builder, shape, db, root, relations, given, raw, loaded, heap, reason, err,
                  queries, nfaults >>
  /\ UNCHANGED fetchLog
  /\ UNCHANGED delivery

\* ------------------------------------------- one branch of Promise.all(map)
\* The branch of entry n ends (done or failed, as newpc says): the call it
\* belongs to settles if Promise.all does, and getAll's promise follows the
\* root call.
Settle(n, newpc, e) ==
  LET p == Rel[n].parent
  IN  /\ pc' = newpc
      /\ call' = [call EXCEPT ![p] = CallAfter(p, newpc)]
      /\ reason' = [reason EXCEPT ![p] = ReasonAfter(p, newpc, e)]
      /\ result' = IF p = root THEN call'[p] ELSE result
      /\ value' = IF p = root /\ call'[p] = "resolved"
                  THEN ReturnValue(op, loaded[root]) ELSE value

\* The branch of entry n throws e at one of its awaits or calls.
Throw(n, e) ==
  /\ err' = [err EXCEPT ![n] = e]
  /\ Settle(n, [pc EXCEPT ![n] = "failed"], e)

\* await rawIterable: the load of entry n delivers its rows.
LoadResolve(n) ==
  /\ pc[n] = "loading"
  /\ raw' = [raw EXCEPT ![n] = LoadRows(db, keys[n], Rel[n].otherTable, Rel[n].otherField)]
  /\ queries' = queries + LoadFetches(keys[n])
  /\ pc' = [pc EXCEPT ![n] = "mapping"]
  /\ UNCHANGED << op, builder, shape, db, root, relations, given, phase, result, loaded, heap,
                  call, reason, err, loadLog, keys, nfaults >>
  /\ fetchLog' = [fetchLog EXCEPT ![n] = @ \o LoadFetchLists(n)]
  /\ UNCHANGED value
  /\ UNCHANGED delivery

\* await rawIterable: the fetch of the load of entry n fails.
LoadFail(n) ==
  /\ pc[n] = "loading"
  /\ keys[n] # {}
  /\ nfaults < MaxFaults
  /\ nfaults' = nfaults + 1
  /\ queries' = queries + LoadFetches(keys[n])
  /\ Throw(n, Error(n, "load"))
  /\ UNCHANGED << op, builder, shape, db, root, relations, given, phase, raw, loaded, heap,
                  loadLog, keys >>
  /\ fetchLog' = [fetchLog EXCEPT ![n] = @ \o LoadFetchLists(n)]
  /\ UNCHANGED delivery

\* for await: loadedEntities.push(await otherEntity.toEntity(data)).
BranchMapStep(n) ==
  /\ pc[n] \in {"mapping", "streaming"}
  /\ Len(loaded[n]) < Len(raw[n])
  /\ LET i == Len(loaded[n]) + 1
         ref == << n, i >>
     IN  /\ loaded' = [loaded EXCEPT ![n] = Push(@, ref)]
         /\ heap' = (ref :> toEntity(raw[n][i])) @@ heap
  /\ UNCHANGED << op, builder, shape, db, root, relations, given, phase, result, raw, pc, call,
                  reason, err, loadLog, keys, queries, nfaults >>
  /\ UNCHANGED << value, fetchLog >>
  /\ UNCHANGED delivery

\* for await: otherEntity.toEntity throws or rejects.
BranchMapFail(n) ==
  /\ pc[n] \in {"mapping", "streaming"}
  /\ Len(loaded[n]) < Len(raw[n])
  /\ nfaults < MaxFaults
  /\ nfaults' = nfaults + 1
  /\ Throw(n, Error(n, "toEntity"))
  /\ UNCHANGED << op, builder, shape, db, root, relations, given, phase, raw, loaded, heap,
                  loadLog, keys, queries >>
  /\ UNCHANGED fetchLog
  /\ UNCHANGED delivery

\* Object.keys(subrelations).length is not 0: the nested call starts and
\* the branch awaits it.
BranchNested(n) ==
  /\ pc[n] = "mapping"
  /\ Len(loaded[n]) = Len(raw[n])
  /\ Subrelations(relations, n) # {}
  /\ pc' = [PcAfterStart(n) EXCEPT ![n] = "nested"]
  /\ loadLog' = LoadLogAfterStart(n)
  /\ keys' = KeysAfterStart(n)
  /\ call' = CallAfterStart(n)
  /\ UNCHANGED << op, builder, shape, db, root, relations, given, phase, result, raw, loaded,
                  heap, reason, err, queries, nfaults >>
  /\ UNCHANGED << value, fetchLog >>
  /\ UNCHANGED delivery

\* A branch that does not await the nested call before it attaches.
ReadyToAttachNoAwait(n) ==
  \/ /\ pc[n] = "mapping"
     /\ Len(loaded[n]) = Len(raw[n])
     /\ Subrelations(relations, n) = {}
  \/ pc[n] = "nested"

\* A branch that attaches as soon as its rows are mapped, whatever its
\* subrelations.
ReadyToAttachSkippingNested(n) ==
  \/ /\ pc[n] = "mapping"
     /\ Len(loaded[n]) = Len(raw[n])
  \/ /\ pc[n] = "nested"
     /\ call[n] = "resolved"

\* The branch has its loadedEntitiesWithNestedRelations.
ReadyToAttach(n) ==
  \/ /\ pc[n] = "mapping"
     /\ Len(loaded[n]) = Len(raw[n])
     /\ Subrelations(relations, n) = {}
  \/ /\ pc[n] = "nested"
     /\ call[n] = "resolved"

\* attach, then the loop writing entity[key] on every entity of the level.
BranchAttach(n) ==
  /\ ReadyToAttach(n)
  /\ heap' = WriteProps(heap, n, loaded[Rel[n].parent], loaded[n])
  /\ Settle(n, [pc EXCEPT ![n] = "done"], NoError)
  /\ UNCHANGED << op, builder, shape, db, root, relations, given, phase, raw, loaded, err,
                  loadLog, keys, queries, nfaults >>
  /\ UNCHANGED fetchLog
  /\ UNCHANGED delivery

\* attach (or the accessor) throws.
BranchAttachFail(n) ==
  /\ ReadyToAttach(n)
  /\ nfaults < MaxFaults
  /\ nfaults' = nfaults + 1
  /\ Throw(n, Error(n, "attach"))
  /\ UNCHANGED << op, builder, shape, db, root, relations, given, phase, raw, loaded, heap,
                  loadLog, keys, queries >>
  /\ UNCHANGED fetchLog
  /\ UNCHANGED delivery

\* await loadRelationsForArray(loadedEntities, subrelations) throws: the
\* nested call rejected.
BranchNestedRejected(n) ==
  /\ pc[n] = "nested"
  /\ call[n] = "rejected"
  /\ Throw(n, reason[n])
  /\ UNCHANGED << op, builder, shape, db, root, relations, given, phase, raw, loaded, heap,
                  loadLog, keys, queries, nfaults >>
  /\ UNCHANGED fetchLog
  /\ UNCHANGED delivery

Next ==
  \/ Fetch
  \/ FetchFail
  \/ MapArrayStep
  \/ MapArrayFail
  \/ MapArrayDone
  \/ \E n \in Nodes : LoadResolve(n)
  \/ \E n \in Nodes : LoadFail(n)
  \/ \E n \in Nodes : BranchMapStep(n)
  \/ \E n \in Nodes : BranchMapFail(n)
  \/ \E n \in Nodes : BranchNested(n)
  \/ \E n \in Nodes : BranchAttach(n)
  \/ \E n \in Nodes : BranchAttachFail(n)
  \/ \E n \in Nodes : BranchNestedRejected(n)

Spec == Init /\ [][Next]_vars

\* ------------------------------------------------------- KnexOrm.loadMany
\* loadMany(entityDef, promise, relations) called on its own: the promise is
\* the caller's and resolves to an array or to something else.
InitMany ==
  /\ root \in Roots
  /\ relations \in RelationsMaps(root)
  /\ given \in (IF relations = {} THEN BOOLEAN ELSE {TRUE})
  /\ db \in CallDatabases(root, relations)
  /\ op = "loadMany"
  /\ builder = {}
  /\ shape \in Shapes
  /\ phase = "fetch"
  /\ result = "pending"
  /\ raw = [c \in Levels |-> << >>]
  /\ loaded = [c \in Levels |-> << >>]
  /\ heap = << >>
  /\ pc = [n \in Nodes |-> "idle"]
  /\ call = [c \in Levels |-> "none"]
  /\ reason = [c \in Levels |-> NoError]
  /\ err = [n \in Nodes |-> NoError]
  /\ loadLog = [n \in Nodes |-> << >>]
  /\ keys = [n \in Nodes |-> {}]
  /\ queries = 0
  /\ nfaults = 0
  /\ value = UndefinedV
  /\ fetchLog = [n \in Nodes |-> << >>]
  /\ delivery = [n \in Nodes |-> "promise"]

SpecMany == InitMany /\ [][Next]_vars

\* ------------------------------------------------- KnexOrm.getOne / loadOne
\* getOne(entityDef, qb => qb.whereIn("id", ids), relations): the ids are
\* the builder's.  The builder selecting all ids is tried with every
\* relations map, the one selecting a single id with the maps of one level.
Builders(rels) ==
  IF \E n \in rels : Rel[n].parent \in rels
  THEN { KeyValues } ELSE { {2}, KeyValues }

\* builder(knex(table)): the rows of the root table the builder selects.
Matches == whereIn(db[LevelTable(root)], "id", builder)

\* .first(): the first selected row, or undefined (no row) when none is.
first(rows) == IF rows = << >> THEN << >> ELSE << rows[1] >>

\* A null check that lets undefined through.
IsNullStrict(row) == FALSE

\* row == null.
IsNull(row) == row = << >>

\* [entity], the array loadRelationsForEntity builds.
ArrayOf(entity) == << entity >>

InitOne ==
  /\ root \in Roots
  /\ relations \in RelationsMaps(root)
  /\ given \in (IF relations = {} THEN BOOLEAN ELSE {TRUE})
  /\ db \in CallDatabases(root, relations)
  /\ op = "getOne"
  /\ builder \in Builders(relations)
  /\ shape \in Shapes
  /\ phase = "fetch"
  /\ result = "pending"
  /\ raw = [c \in Levels |-> << >>]
  /\ loaded = [c \in Levels |-> << >>]
  /\ heap = << >>
  /\ pc = [n \in Nodes |-> "idle"]
  /\ call = [c \in Levels |-> "none"]
  /\ reason = [c \in Levels |-> NoError]
  /\ err = [n \in Nodes |-> NoError]
  /\ loadLog = [n \in Nodes |-> << >>]
  /\ keys = [n \in Nodes |-> {}]
  /\ queries = 0
  /\ nfaults = 0
  /\ value = UndefinedV
  /\ fetchLog = [n \in Nodes |-> << >>]
  /\ delivery = [n \in Nodes |-> "promise"]

\* loadOne: row = await promise, where the promise is getOne's first()
\* query or, when loadOne is called on its own, a query of all the matches;
\* an array throws, a missing row returns null, any other row is handed to
\* mapToEntity.
FetchOne ==
  /\ phase = "fetch"
  /\ queries' = queries + 1
  /\ IF IsArray(shape)
     THEN /\ phase' = "returned"
          /\ result' = "rejected"
          /\ reason' = [reason EXCEPT ![root] = Error(0, "shape")]
          /\ UNCHANGED << raw, value >>
     ELSE /\ raw' = [raw EXCEPT ![root] = first(Matches)]
          /\ IF IsNull(raw'[root])
             THEN /\ phase' = "returned"
                  /\ result' = "resolved"
                  /\ value' = NullV
             ELSE /\ phase' = "map"
                  /\ UNCHANGED << result, value >>
          /\ UNCHANGED reason
  /\ UNCHANGED << op, builder, shape, db, root, relations, given, loaded,
                  heap, pc, call, err, loadLog, keys, nfaults, fetchLog >>
  /\ UNCHANGED delivery

\* loadOne: the awaited promise rejects.
FetchOneFail ==
  /\ phase = "fetch"
  /\ nfaults < MaxFaults
  /\ nfaults' = nfaults + 1
  /\ queries' = queries + 1
  /\ phase' = "returned"
  /\ result' = "rejected"
  /\ reason' = [reason EXCEPT ![root] = Error(0, "fetch")]
  /\ UNCHANGED << op, builder, shape, db, root, relations, given, raw, loaded, heap,
                  pc, call, err, loadLog, keys, value, fetchLog >>
  /\ UNCHANGED delivery

\* loadOne: entity = await mapToEntity(entityDef, row), then
\* relations ? loadRelationsForEntity(entity, relations) : entity.
MapOne ==
  /\ phase = "map"
  /\ op = "getOne"
  /\ LET ref == << root, 1 >>
     IN  /\ heap' = (ref :> toEntity(raw[root][1])) @@ heap
         /\ IF given
            THEN /\ loaded' = [loaded EXCEPT ![root] = ArrayOf(ref)]
                 /\ phase' = "hydrate"
                 /\ pc' = [ n \in Nodes |-> IF n \in Started(relations, root)
                                            THEN "loading" ELSE pc[n] ]
                 /\ loadLog' = [ n \in Nodes |->
                                   IF n \in Started(relations, root)
                                   THEN loadLog[n] \o LoadCalls(loaded'[root])
                                   ELSE loadLog[n] ]
                 /\ keys' = [ n \in Nodes |->
                                IF n \in Started(relations, root)
                                THEN LoadKeys(heap', loaded'[root], Rel[n].localField)
                                ELSE keys[n] ]
                 /\ call' = [ call EXCEPT ![root] =
                                PromiseAll("pending", { pc'[m] :
                                    m \in Subrelations(relations, root) }) ]
                 /\ result' = call'[root]
                 /\ value' = IF call'[root] = "resolved"
                             THEN ReturnValue(op, loaded'[root]) ELSE value
            ELSE /\ phase' = "returned"
                 /\ result' = "resolved"
                 /\ value' = OneV(ref)
                 /\ UNCHANGED << loaded, pc, loadLog, keys, call >>
  /\ UNCHANGED << op, builder, shape, db, root, relations, given, raw, reason, err,
                  queries, nfaults, fetchLog >>
  /\ UNCHANGED delivery

\* loadOne: toEntity throws or rejects.
MapOneFail ==
  /\ phase = "map"
  /\ op = "getOne"
  /\ nfaults < MaxFaults
  /\ nfaults' = nfaults + 1
  /\ phase' = "returned"
  /\ result' = "rejected"
  /\ reason' = [reason EXCEPT ![root] = Error(0, "toEntity")]
  /\ UNCHANGED << op, builder, shape, db, root, relations, given, raw, loaded, heap,
                  pc, call, err, loadLog, keys, queries, value, fetchLog >>
  /\ UNCHANGED delivery

NextOne ==
  \/ FetchOne
  \/ FetchOneFail
  \/ MapOne
  \/ MapOneFail
  \/ \E n \in Nodes : LoadResolve(n)
  \/ \E n \in Nodes : LoadFail(n)
  \/ \E n \in Nodes : BranchMapStep(n)
  \/ \E n \in Nodes : BranchMapFail(n)
  \/ \E n \in Nodes : BranchNested(n)
  \/ \E n \in Nodes : BranchAttach(n)
  \/ \E n \in Nodes : BranchAttachFail(n)
  \/ \E n \in Nodes : BranchNestedRejected(n)

SpecOne == InitOne /\ [][NextOne]_vars

TypeOK ==
  /\ phase \in {"fetch", "map", "hydrate", "returned"}
  /\ result \in {"pending", "resolved", "rejected"}
  /\ \A n \in Nodes : pc[n] \in {"idle", "loading", "streaming", "mapping", "nested",
                               "done", "failed"}
  /\ \A c \in Levels : call[c] \in {"none", "pending", "resolved", "rejected"}
  /\ \A c \in Levels : Range(loaded[c]) \subseteq DOMAIN heap

\* ================================================================== claims
\* The entities of the level entry n attaches to.
LevelEntities(n) == loaded[Rel[n].parent]

\* The loaded entities of entry n whose otherField equals the localField of
\* the local entity e, in load order.
Matching(n, e) ==
  SelectSeq(loaded[n],
            LAMBDA r : heap[r][Rel[n].otherField] = heap[e][Rel[n].localField])

\* The hydration call has resolved.
Hydrated == given /\ result = "resolved"

\* C1: in one hydrate call every relationship entry's load is invoked at
\* most once, never once per entity; each invocation receives the whole
\* entity array of its level; and once the call has resolved every entry of
\* the relation tree, top-level or nested, has had exactly one invocation.
C1_LoadOncePerEntry ==
  /\ \A n \in Nodes :
        /\ Len(loadLog[n]) <= 1
        /\ n \notin relations => loadLog[n] = << >>
        /\ loadLog[n] # << >> =>
              /\ loadLog[n][1] = LevelEntities(n)
              /\ Len(LevelEntities(n)) = Len(raw[Rel[n].parent])
  /\ Hydrated => \A n \in relations : Len(loadLog[n]) = 1

\* C1 witness: a resolved call over two root entities whose nested entry was
\* loaded once with an array of two entities.
C1_Witness ==
  /\ Hydrated
  /\ Len(loaded[root]) >= 2
  /\ \E n \in relations :
        /\ Rel[n].parent # root
        /\ Len(loadLog[n]) = 1
        /\ Len(loadLog[n][1]) >= 2

\* C2: after the call resolves, every entity of the input array, matched
\* or not, carries for every key K of the relations map a property K whose
\* value is the accessor of that relationship applied to the entity.
C2_EveryEntityCarriesEveryKey ==
  Hydrated =>
    \A n \in Subrelations(relations, root) :
      \A i \in DOMAIN loaded[root] :
        LET e == loaded[root][i]
        IN  /\ Rel[n].key \in DOMAIN heap[e]
            /\ heap[e][Rel[n].key] = Accessor(n, heap, loaded[n], e)

\* C2 witness: a resolved call with two keys where one input entity has a
\* related row and another has none.
C2_Witness ==
  /\ Hydrated
  /\ Cardinality(Subrelations(relations, root)) >= 2
  /\ \E n \in Subrelations(relations, root) :
        \E i, j \in DOMAIN loaded[root] :
          /\ heap[loaded[root][i]][Rel[n].key].refs # << >>
          /\ heap[loaded[root][j]][Rel[n].key].refs = << >>

\* C3: for a hasMany relationship the list attached to a local entity is
\* exactly the loaded related entities whose otherField equals the local
\* entity's localField, in the order load yielded them.
C3_ManyListIsMatchesInLoadOrder ==
  \A n \in relations :
    (Rel[n].kind = "many" /\ pc[n] = "done") =>
      \A i \in DOMAIN LevelEntities(n) :
        LET e == LevelEntities(n)[i]
        IN  /\ Rel[n].key \in DOMAIN heap[e]
            /\ heap[e][Rel[n].key].tag = "many"
            /\ heap[e][Rel[n].key].refs = Matching(n, e)

\* C3 witness: a hasMany entry is done, one local entity got the two loaded
\* entities in load order and another local entity got neither.
C3_Witness ==
  \E n \in relations :
    /\ Rel[n].kind = "many"
    /\ pc[n] = "done"
    /\ Len(loaded[n]) = 2
    /\ \E i, j \in DOMAIN LevelEntities(n) :
          /\ heap[LevelEntities(n)[i]][Rel[n].key].refs = << << n, 1 >>, << n, 2 >> >>
          /\ heap[LevelEntities(n)[j]][Rel[n].key].refs = << >>

\* C4: for a hasOne relationship the property attached to a local entity
\* is present and null when no loaded related entity has otherField equal to
\* the local entity's localField, and otherwise is one loaded related entity
\* whose otherField equals it.
C4_OneIsNullOrAMatch ==
  \A n \in relations :
    (Rel[n].kind = "one" /\ pc[n] = "done") =>
      \A i \in DOMAIN LevelEntities(n) :
        LET e == LevelEntities(n)[i]
            v == heap[e][Rel[n].key]
        IN  /\ Rel[n].key \in DOMAIN heap[e]
            /\ IF Matching(n, e) = << >>
               THEN v = NullV
               ELSE /\ v.tag = "one"
                    /\ v.refs[1] \in Range(Matching(n, e))

\* C4 witness: a hasOne entry is done, one local entity has no related row
\* and carries null while another carries its related entity.
C4_Witness ==
  \E n \in relations :
    /\ Rel[n].kind = "one"
    /\ pc[n] = "done"
    /\ \E i, j \in DOMAIN LevelEntities(n) :
          /\ Matching(n, LevelEntities(n)[i]) = << >>
          /\ heap[LevelEntities(n)[i]][Rel[n].key] = NullV
          /\ heap[LevelEntities(n)[j]][Rel[n].key].tag = "one"

\* C5: for a hasMany relationship every local entity with no matching
\* related row carries an empty list: a list of length 0, not null, not
\* absent.
C5_ManyDefaultsToEmptyList ==
  \A n \in relations :
    (Rel[n].kind = "many" /\ pc[n] = "done") =>
      \A i \in DOMAIN LevelEntities(n) :
        LET e == LevelEntities(n)[i]
        IN  (\A j \in DOMAIN loaded[n] :
               heap[loaded[n][j]][Rel[n].otherField] # heap[e][Rel[n].localField])
            => /\ Rel[n].key \in DOMAIN heap[e]
               /\ heap[e][Rel[n].key] = ManyV(<< >>)

\* C5 witness: a hasMany entry is done with related rows loaded, and a
\* local entity none of them belongs to carries the empty list.
C5_Witness ==
  \E n \in relations :
    /\ Rel[n].kind = "many"
    /\ pc[n] = "done"
    /\ loaded[n] # << >>
    /\ \E i \in DOMAIN LevelEntities(n) :
          /\ Matching(n, LevelEntities(n)[i]) = << >>
          /\ heap[LevelEntities(n)[i]][Rel[n].key] = ManyV(<< >>)

\* C6: when an entry has a non-empty subrelations map, every related entity
\* attached under its key carries one property per key of the subrelations
\* map, at every depth of the relation tree.
C6_AttachedEntitiesCarrySubrelations ==
  \A n \in relations :
    pc[n] = "done" =>
      \A i \in DOMAIN LevelEntities(n) :
        LET attached == heap[LevelEntities(n)[i]][Rel[n].key].refs
        IN  \A j \in DOMAIN attached :
              \A m \in Subrelations(relations, n) :
                Rel[m].key \in DOMAIN heap[attached[j]]

\* C6 witness: the whole tree is hydrated and a bookstore carries a book
\* that carries its details and an author who carries a book.
C6_Witness ==
  /\ Hydrated
  /\ relations = Nodes
  /\ \E i \in DOMAIN loaded[0] :
        \E b \in Range(heap[loaded[0][i]]["books"].refs) :
          /\ heap[b]["details"].tag = "one"
          /\ heap[b]["author"].tag = "one"
          /\ heap[heap[b]["author"].refs[1]]["books"].refs # << >>

\* C7: getAll issues exactly 1 + R queries, R the number of entries of the
\* relation tree, whatever the number of rows, whenever every level of the
\* tree has at least one entity to load for.
C7_OneQueryPerRelationship ==
  (Hydrated /\ \A n \in relations : LevelEntities(n) # << >>)
    => queries = 1 + Cardinality(relations)

\* C7 witness: the four-entry tree of the "Query optimization" test over
\* two bookstores, with two books loaded, answered with five queries.
C7_Witness ==
  /\ Hydrated
  /\ Cardinality(relations) = Cardinality(Nodes)
  /\ Len(loaded[root]) >= 2
  /\ \A n \in relations : Len(LevelEntities(n)) >= 1
  /\ \E n \in relations : Len(loaded[n]) >= 2
  /\ queries = 1 + Cardinality(Nodes)

\* C8: within one call the loads of all keys of the same relations map are
\* invoked together: in no state has one key's load been invoked while
\* another key's load still waits to be, so no load invocation waits for
\* another key's load, mapping, nested hydration or attach.
C8_LoadsOfAMapInvokedTogether ==
  \A n, m \in relations :
    (Rel[n].parent = Rel[m].parent /\ pc[n] # "idle") =>
      /\ pc[m] # "idle"
      /\ loadLog[m] # << >>

\* C8 witness: one key's branch is done while the load of another key of
\* the same map, invoked at the same time, is still in flight.
C8_Witness ==
  \E n, m \in relations :
    /\ n # m
    /\ Rel[n].parent = Rel[m].parent
    /\ pc[n] = "done"
    /\ pc[m] = "loading"
    /\ loadLog[m] # << >>

\* The entries of the subtree of the call on level c.
Below(c) == { n \in relations : c \in Ancestors(n) }

\* C9: a call resolves only after every branch of its subtree, nested ones
\* included, has finished its attach step and written its property on every
\* entity of its level; getAll's promise resolves only with the root call.
C9_ResolvesAfterAllBranches ==
  /\ \A c \in Levels :
        call[c] = "resolved" =>
          \A n \in Below(c) :
            /\ pc[n] = "done"
            /\ \A i \in DOMAIN LevelEntities(n) :
                  Rel[n].key \in DOMAIN heap[LevelEntities(n)[i]]
  /\ Hydrated => call[root] = "resolved"

\* C9 witness: a call with two root keys, one of them with a nested entry
\* that loaded entities, has resolved.
C9_Witness ==
  /\ Hydrated
  /\ Cardinality(Subrelations(relations, root)) >= 2
  /\ \E n \in relations :
        /\ Rel[n].parent # root
        /\ loaded[n] # << >>
        /\ call[Rel[n].parent] = "resolved"

\* C10: if load, toEntity or attach fails for an entry at any depth, the
\* call never resolves: the failure rejects the call the entry belongs to,
\* the branch awaiting that call fails in turn, and a failure of a root
\* branch rejects the whole call, whatever the other keys do.
C10_AnyFailureRejectsTheCall ==
  \A n \in relations :
    pc[n] = "failed" =>
      /\ result # "resolved"
      /\ call[root] # "resolved"
      /\ call[Rel[n].parent] = "rejected"
      /\ Rel[n].parent = root => result = "rejected"
      /\ Rel[n].parent # root => pc[Rel[n].parent] \in {"nested", "failed"}

\* C10 witness: the call is rejected because of a failure in a nested
\* entry, passed on by the branch that awaited the nested call, while
\* another key of the root map has succeeded.
C10_Witness ==
  /\ result = "rejected"
  /\ \E n \in relations :
        /\ Rel[n].parent # root
        /\ pc[n] = "failed"
        /\ err[n].at = n
        /\ pc[Rel[n].parent] = "failed"
        /\ reason[root] = err[n]
  /\ \E m \in Subrelations(relations, root) : pc[m] = "done"

\* The keys of the relations map the caller passed, as entries.
RequestedKeys == Subrelations(relations, root)

\* The entity carries the relationship property of entry n.
Carries(r, n) == Rel[n].key \in DOMAIN heap[r]

\* C11: when one key of a hydrate call with several keys fails, there is no
\* partial success: once the call has failed no input entity carries the
\* relationship property of some requested keys but not of others.
C11_NoPartialSuccess ==
  (given /\ result = "rejected" /\ phase = "hydrate") =>
    \A i \in DOMAIN loaded[root] :
      \/ \A n \in RequestedKeys : Carries(loaded[root][i], n)
      \/ \A n \in RequestedKeys : ~Carries(loaded[root][i], n)


\* The step is the assignment loop of the branch of entry n.
AttachStep(n) == pc[n] # "done" /\ pc'[n] = "done"

\* The other entries of the relations map entry n belongs to.
Siblings(n) == Subrelations(relations, Rel[n].parent) \ {n}

\* The step leaves the existing object r as it is.
Untouched(r) == heap'[r] = heap[r]

\* The step writes property k of the existing object r, which did not
\* have it, and nothing else of r.
WritesOnly(r, k) ==
  /\ k \notin DOMAIN heap[r]
  /\ DOMAIN heap'[r] = DOMAIN heap[r] \cup {k}
  /\ \A j \in DOMAIN heap[r] : heap'[r][j] = heap[r][j]

\* C12: the branch processing key K writes only the property K, and only on
\* the entities of its level; no step outside an assignment loop writes a
\* property of an existing entity; and when a branch writes K on an entity
\* no other branch has written that property of that entity, its siblings
\* having other keys, whatever the interleaving.
C12_BranchWritesOnlyItsKey ==
  [][ IF \E n \in relations : AttachStep(n)
      THEN \A n \in relations :
             AttachStep(n) =>
               /\ \A m \in Siblings(n) : Rel[m].key # Rel[n].key
               /\ \A r \in DOMAIN heap :
                     IF r \in Range(LevelEntities(n))
                     THEN WritesOnly(r, Rel[n].key)
                     ELSE Untouched(r)
      ELSE \A r \in DOMAIN heap : Untouched(r)
    ]_vars

\* C12 witness: one branch has written its key on an entity while a sibling
\* of the same map, started with it, is about to write its own.
C12_Witness ==
  \E n \in relations : \E m \in Siblings(n) :
    /\ pc[n] = "done"
    /\ ReadyToAttach(m)
    /\ \E i \in DOMAIN LevelEntities(n) :
          /\ Carries(LevelEntities(n)[i], n)
          /\ ~Carries(LevelEntities(n)[i], m)


\* loadRelationsForArray has been called with an empty entity array and a
\* relations map with at least one entry.
EmptyInput == phase = "hydrate" /\ loaded[root] = << >> /\ relations # {}

\* The one invocation load([]).
LoadedWithNone == << << >> >>

\* C13 as stated: with N = 0 entities and a non-empty relations map no
\* relationship's load is invoked at all and the result is an empty list.
C13_NoLoadOnEmptyInput ==
  EmptyInput =>
    /\ \A n \in relations : loadLog[n] = << >>
    /\ result = "resolved" => value = ManyV(<< >>)

\* C13 amended: with N = 0 entities and a non-empty relations map every
\* top-level relationship's load is invoked exactly once, with the empty
\* array; the hasOne / hasMany load then issues no fetch and yields no row,
\* so no toEntity runs and the nested entries are in turn invoked at most
\* once with an empty array; a call that resolves has invoked every entry
\* once and its result is the empty list.
C13_EmptyInputLoadsOnceWithoutFetch ==
  EmptyInput =>
    /\ \A n \in RequestedKeys : loadLog[n] = LoadedWithNone
    /\ \A n \in relations : loadLog[n] \in { << >>, LoadedWithNone }
    /\ \A n \in relations : fetchLog[n] = << >> /\ raw[n] = << >>
    /\ queries = 1
    /\ heap = << >>
    /\ result = "resolved" =>
          /\ value = ManyV(<< >>)
          /\ \A n \in relations : loadLog[n] = LoadedWithNone

\* C13 witness: a call on an empty root table with a nested relations map
\* has resolved.
C13_Witness ==
  /\ EmptyInput
  /\ result = "resolved"
  /\ \E n \in relations : Rel[n].parent # root /\ pc[n] = "done"


\* C14: getOne with a builder whose query matches more than one row raises
\* an error: it never resolves with (silently picks) one of the rows.
C14_GetOneRejectsSeveralRows ==
  (op = "getOne" /\ shape = "row" /\ Len(Matches) > 1) => result # "resolved"

\* C15: when the fetch of getOne / loadOne yields no row, the call returns
\* null without error: toEntity is not called, no relationship's load is
\* invoked and no hydration call is made, relations map or not, and the one
\* query of the fetch is the only one.
C15_NoRowReturnsNull ==
  (op = "getOne" /\ shape = "row" /\ Matches = << >>
     /\ phase # "fetch" /\ reason[root].stage # "fetch") =>
    /\ phase = "returned"
    /\ result = "resolved"
    /\ value = NullV
    /\ heap = << >>
    /\ \A n \in Nodes : loadLog[n] = << >> /\ pc[n] = "idle"
    /\ \A c \in Levels : call[c] = "none" /\ loaded[c] = << >>
    /\ queries = 1

\* C15 witness: getOne with a relations map returned null although the
\* root table has a row, the builder selecting none.
C15_Witness ==
  /\ op = "getOne"
  /\ result = "resolved"
  /\ value = NullV
  /\ relations # {}
  /\ db[LevelTable(root)] # << >>
  /\ Matches = << >>


\* C18: loadRelationsForEntity(entity, relations) is the call
\* loadRelationsForArray([entity], relations) followed by [0]: every
\* requested key's load is invoked once with the one-element array holding
\* the entity, a finished branch has written on the entity what the
\* relationship's accessor gives for it, the entity call is rejected exactly
\* when a branch of the array call failed and with the reason of the array
\* call, and it resolves with the array's sole element, carrying every
\* requested key.
C18_EntityCallIsArrayCallOnOne ==
  (op = "getOne" /\ phase = "hydrate") =>
    /\ Len(loaded[root]) = 1
    /\ result = call[root]
    /\ \A n \in RequestedKeys :
          /\ loadLog[n] = << loaded[root] >>
          /\ pc[n] = "done" =>
                heap[loaded[root][1]][Rel[n].key]
                  = Accessor(n, heap, loaded[n], loaded[root][1])
    /\ result = "rejected" <=> \E n \in RequestedKeys : pc[n] = "failed"
    /\ result = "rejected" =>
          \E n \in RequestedKeys : pc[n] = "failed" /\ reason[root] = err[n]
    /\ result = "resolved" =>
          /\ value = OneV(loaded[root][1])
          /\ \A n \in RequestedKeys : Carries(loaded[root][1], n)

\* C18 witness: getOne resolved with an entity that carries a related
\* entity under one of two requested keys.
C18_Witness ==
  /\ op = "getOne"
  /\ phase = "hydrate"
  /\ result = "resolved"
  /\ value.tag = "one"
  /\ Cardinality(RequestedKeys) >= 2
  /\ \E n \in RequestedKeys :
        /\ Rel[n].kind = "one"
        /\ heap[value.refs[1]][Rel[n].key].refs # << >>


\* C16: when what loadMany awaited is not an array the call is rejected with
\* the shape error before any row is mapped and before any relationship's
\* load is invoked: no entity exists and no branch was started.
C16_NonArrayRejectsBeforeMapping ==
  (op = "loadMany" /\ shape # "array" /\ phase # "fetch"
     /\ reason[root].stage # "fetch") =>
    /\ phase = "returned"
    /\ result = "rejected"
    /\ reason[root] = Error(0, "shape")
    /\ heap = << >>
    /\ \A c \in Levels : loaded[c] = << >> /\ call[c] = "none"
    /\ \A n \in Nodes : loadLog[n] = << >> /\ pc[n] = "idle"

\* C16 witness: loadMany with a relations map, on a root table with rows,
\* was rejected for the shape of the fetch result.
C16_Witness ==
  /\ op = "loadMany"
  /\ shape = "row"
  /\ result = "rejected"
  /\ reason[root].stage = "shape"
  /\ relations # {}
  /\ db[LevelTable(root)] # << >>

\* mapArrayToEntity has returned its list.
Mapped == phase = "hydrate" \/ (phase = "returned" /\ result = "resolved")

\* C17: mapArrayToEntity returns a list as long as rows whose i-th element
\* is toEntity(rows[i]), the list growing in row order while the loop runs;
\* for no rows it returns the empty list, no toEntity having run or failed.
C17_MapArrayKeepsLengthAndOrder ==
  op = "loadMany" =>
    /\ Len(loaded[root]) <= Len(raw[root])
    /\ \A i \in DOMAIN loaded[root] :
          \A col \in DOMAIN raw[root][i] :
             heap[loaded[root][i]][col] = toEntity(raw[root][i])[col]
    /\ Mapped => Len(loaded[root]) = Len(raw[root])
    /\ (Mapped /\ ~given) => value = ManyV(loaded[root])
    /\ (phase \in {"hydrate", "returned"} /\ raw[root] = << >>
          /\ reason[root].stage \notin {"fetch", "shape"}) =>
          /\ Mapped
          /\ loaded[root] = << >>
          /\ \A r \in DOMAIN heap : r[1] # root

\* C17 witness: two rows were mapped and loadMany, called without relations,
\* returned the two entities.
C17_Witness ==
  /\ op = "loadMany"
  /\ ~given
  /\ result = "resolved"
  /\ Len(raw[root]) >= 2
  /\ value.refs = << << root, 1 >>, << root, 2 >> >>


\* The steps the branch of entry n can still take: the await of its load,
\* one toEntity per row, the nested call's start, the attach.
BranchWork(n) ==
  CASE pc[n] \in {"idle", "loading"} -> Len(db[Rel[n].otherTable]) + 3
    [] pc[n] = "mapping" -> (Len(raw[n]) - Len(loaded[n])) + 2
    [] pc[n] = "nested" -> 1
    [] OTHER -> 0

\* The steps loadMany can still take before the hydration call.
RootWork ==
  CASE phase = "fetch" -> Len(db[LevelTable(root)]) + 2
    [] phase = "map" -> (Len(raw[root]) - Len(loaded[root])) + 1
    [] OTHER -> 0

\* The steps the branches of the entries 1..k of the map can still take.
RECURSIVE WorkUpTo(_)
WorkUpTo(k) ==
  IF k = 0 THEN 0
  ELSE (IF k \in relations THEN BranchWork(k) ELSE 0) + WorkUpTo(k - 1)

\* A bound on the steps left, fixed by the relations map and the rows.
Measure == RootWork + WorkUpTo(Len(Rel))

\* The number of load invocations of the entries 1..k so far.
RECURSIVE LoadsUpTo(_)
LoadsUpTo(k) == IF k = 0 THEN 0 ELSE Len(loadLog[k]) + LoadsUpTo(k - 1)

\* The number of load invocations so far.
LoadInvocations == LoadsUpTo(Len(Rel))

\* The levels a loadRelationsForArray call was made on.
CallLevels == { c \in Levels : call[c] # "none" }

\* The levels the relations map asks a call on: the root and the entries
\* that have subrelations.
MapLevels == {root} \cup { n \in relations : Subrelations(relations, n) # {} }

\* A step of loadMany or of a branch is waiting to be taken: an await of
\* load, toEntity or a settled nested call, or the attach.
Running ==
  \/ phase \in {"fetch", "map"}
  \/ \E n \in relations : pc[n] \in {"loading", "mapping"}
  \/ \E n \in relations : pc[n] = "nested" /\ call[n] # "pending"

\* C19: a call over a finite relation tree terminates, cyclic data or not:
\* every step of load, toEntity or attach lowers a bound fixed by the
\* relations map and the rows; an unsettled call always has a step waiting;
\* calls are made only on the root level and on the entries that have
\* subrelations, so the recursion is as deep as the map; and the load
\* invocations never exceed the entries of the map and equal them once the
\* call has resolved.
C19_TerminatesWithinTheTree ==
  /\ [][Measure' < Measure]_vars
  /\ [](/\ Measure >= 0
        /\ result = "pending" => Running
        /\ LoadInvocations <= Cardinality(relations)
        /\ CallLevels \subseteq MapLevels
        /\ Hydrated => /\ LoadInvocations = Cardinality(relations)
                       /\ CallLevels = MapLevels)

\* C19 witness: the call over bookstore -> books -> author -> books has
\* resolved on cyclic data, a book loaded under its own author.
C19_Witness ==
  /\ Hydrated
  /\ root = 0
  /\ {1, 3, 4} \subseteq relations
  /\ \E i \in DOMAIN loaded[1] : \E j \in DOMAIN loaded[4] :
        /\ heap[loaded[1][i]].id = heap[loaded[4][j]].id
        /\ heap[loaded[1][i]].author.refs # << >>
        /\ loaded[4][j] \in Range(heap[heap[loaded[1][i]].author.refs[1]].books.refs)


\* The localField values of the entities the load of entry n was given.
DistinctKeys(n) ==
  { heap[loadLog[n][1][i]][Rel[n].localField] : i \in DOMAIN loadLog[n][1] }

\* No value occurs twice in the list.
NoDuplicates(list) ==
  \A i, j \in DOMAIN list : list[i] = list[j] => i = j

\* The load of entry n has been awaited: it delivered its rows or failed.
LoadAwaited(n) == pc[n] \notin {"idle", "loading"}

\* The number of fetches the loads of the entries 1..k have issued.
RECURSIVE FetchesUpTo(_)
FetchesUpTo(k) == IF k = 0 THEN 0 ELSE Len(fetchLog[k]) + FetchesUpTo(k - 1)

\* C20: the load of a hasOne / hasMany relationship issues at most one
\* fetch per invocation; the fetch is filtered to the distinct localField
\* values of the entities the load was given, each value once, and returns
\* the rows of the other table whose otherField is one of them; with no
\* distinct key the load returns no row and issues no fetch; and the
\* queries issued are the root query and these fetches.
C20_LoadFetchesOnceByDistinctKeys ==
  /\ \A n \in relations :
        /\ Len(fetchLog[n]) <= Len(loadLog[n])
        /\ \A j \in DOMAIN fetchLog[n] :
              /\ NoDuplicates(fetchLog[n][j])
              /\ Range(fetchLog[n][j]) = DistinctKeys(n)
        /\ LoadAwaited(n) =>
              IF DistinctKeys(n) = {}
              THEN fetchLog[n] = << >> /\ raw[n] = << >>
              ELSE /\ Len(fetchLog[n]) = 1
                   /\ err[n].stage # "load" =>
                        raw[n] = whereIn(db[Rel[n].otherTable], Rel[n].otherField,
                                         DistinctKeys(n))
  /\ queries = (IF phase = "fetch" THEN 0 ELSE 1)
                 + FetchesUpTo(Len(Rel))

\* C20 witness: a load given two entities with the same localField value
\* fetched once, with that value once, and rows came back.
C20_Witness ==
  \E n \in relations :
    /\ pc[n] = "done"
    /\ Len(loadLog[n][1]) >= 2
    /\ Len(fetchLog[n]) = 1
    /\ Len(fetchLog[n][1]) < Len(loadLog[n][1])
    /\ raw[n] # << >>


\* ------------------------------------------------ loadRelationsForArray
\* The call loadRelationsForArray(entities, relations), followed from the
\* point where loadMany holds the entities of its rows: the list of entity
\* references of the rows, and the objects they refer to.  The call is
\* made on books or on authors, with every relations map of theirs (up to
\* two levels deep: book -> author -> books).
RefsOf(c, rows) == [ i \in DOMAIN rows |-> << c, i >> ]
EntitiesOf(c, rows) ==
  IF rows = << >> THEN << >>
  ELSE [ ref \in { << c, i >> : i \in DOMAIN rows } |-> toEntity(rows[ref[2]]) ]

InitHydrate ==
  /\ root \in Roots \ {0}
  /\ relations \in RelationsMaps(root)
  /\ given = TRUE
  /\ db \in CallDatabases(root, relations)
  /\ op = "loadMany"
  /\ builder = {}
  /\ shape = "array"
  /\ phase = "map"
  /\ result = "pending"
  /\ raw = [c \in Levels |-> IF c = root THEN db[LevelTable(root)] ELSE << >>]
  /\ loaded = [c \in Levels |-> IF c = root THEN RefsOf(root, raw[root]) ELSE << >>]
  /\ heap = EntitiesOf(root, raw[root])
  /\ pc = [n \in Nodes |-> "idle"]
  /\ call = [c \in Levels |-> "none"]
  /\ reason = [c \in Levels |-> NoError]
  /\ err = [n \in Nodes |-> NoError]
  /\ loadLog = [n \in Nodes |-> << >>]
  /\ keys = [n \in Nodes |-> {}]
  /\ queries = 1
  /\ nfaults = 0
  /\ value = UndefinedV
  /\ fetchLog = [n \in Nodes |-> << >>]
  /\ delivery = [n \in Nodes |-> "promise"]

NextHydrate ==
  \/ MapArrayDone
  \/ \E n \in Nodes : LoadResolve(n)
  \/ \E n \in Nodes : LoadFail(n)
  \/ \E n \in Nodes : BranchMapStep(n)
  \/ \E n \in Nodes : BranchMapFail(n)
  \/ \E n \in Nodes : BranchNested(n)
  \/ \E n \in Nodes : BranchAttach(n)
  \/ \E n \in Nodes : BranchAttachFail(n)
  \/ \E n \in Nodes : BranchNestedRejected(n)

SpecHydrate == InitHydrate /\ [][NextHydrate]_vars

\* ------------------------------------------------------------------ C21
\* The entities the call was given: the references of the rows, in order.
EntitiesGiven == RefsOf(root, db[LevelTable(root)])

\* C21: loadRelationsForArray hydrates in place.  Throughout the call the
\* list of the root level is the list the call was given, with the same
\* objects in the same order and no object of that level added or dropped;
\* the resolved call returns that very list, and each of its entities
\* carries every requested relationship property.
C21_HydratesInPlace ==
  /\ loaded[root] = EntitiesGiven
  /\ { r \in DOMAIN heap : r[1] = root } = Range(EntitiesGiven)
  /\ result = "resolved" =>
       /\ value = ManyV(EntitiesGiven)
       /\ Len(value.refs) = Len(db[LevelTable(root)])
       /\ \A i \in DOMAIN value.refs :
            /\ value.refs[i] = << root, i >>
            /\ \A n \in RequestedKeys : Carries(value.refs[i], n)

\* A resolved call on two entities with two requested keys.
C21_Witness ==
  /\ result = "resolved"
  /\ Len(EntitiesGiven) >= 2
  /\ Cardinality(RequestedKeys) >= 2
  /\ value = ManyV(EntitiesGiven)


\* --------------------------------------- the ways load delivers its rows
\* loadRelationsForArray accepts from load a collection, a promise of a
\* collection, or an asynchronous sequence (core index.ts:82-86).  The
\* call is followed on one level of relationships whose loads deliver in
\* any of the three ways, over detail tables in which several rows may
\* name the same book.
Modes == {"promise", "sync", "iterable"}

\* A hydrator that never takes what load returned for a promise.
isPromiseNever(mode) == FALSE

\* isPromise(rawIterable).
isPromise(mode) == mode = "promise"

\* What "for await" can iterate: a collection or an asynchronous sequence.
Iterable(mode) == mode \in {"sync", "iterable"}

\* The rows the load of entry n delivers, whichever way.
Source(n) == LoadRows(db, keys[n], Rel[n].otherTable, Rel[n].otherField)

\* The relations maps without nested entries.
OneLevelMaps(r) ==
  { S \in RelationsMaps(r) : S # {} /\ \A n \in S : Rel[n].parent = r }

DuplicateDetailTables ==
  { [i \in DOMAIN f |-> [id |-> i, book_id |-> f[i]]] :
      f \in SeqsUpTo(KeyValues, MaxDuplicates) }

DeliveryDatabases(r, rels) ==
  { [d EXCEPT !.book_details = t] :
      d \in CallDatabases(r, rels),
      t \in IF "book_details" \in UsedTables(r, rels)
            THEN DuplicateDetailTables ELSE {<< >>} }

InitDelivery ==
  /\ root \in Roots
  /\ relations \in OneLevelMaps(root)
  /\ given = TRUE
  /\ db \in DeliveryDatabases(root, relations)
  /\ delivery \in { f \in [Nodes -> Modes] :
                      \A n \in Nodes \ relations : f[n] = "promise" }
  /\ op = "loadMany"
  /\ builder = {}
  /\ shape = "array"
  /\ phase = "map"
  /\ result = "pending"
  /\ raw = [c \in Levels |-> IF c = root THEN db[LevelTable(root)] ELSE << >>]
  /\ loaded = [c \in Levels |-> IF c = root THEN RefsOf(root, raw[root]) ELSE << >>]
  /\ heap = EntitiesOf(root, raw[root])
  /\ pc = [n \in Nodes |-> "idle"]
  /\ call = [c \in Levels |-> "none"]
  /\ reason = [c \in Levels |-> NoError]
  /\ err = [n \in Nodes |-> NoError]
  /\ loadLog = [n \in Nodes |-> << >>]
  /\ keys = [n \in Nodes |-> {}]
  /\ queries = 1
  /\ nfaults = 0
  /\ value = UndefinedV
  /\ fetchLog = [n \in Nodes |-> << >>]

\* Where the callback of entry n stands after  load(entities)  and
\* isPromise(rawIterable) ? await rawIterable : rawIterable.
PcAfterLoad(n) ==
  IF isPromise(delivery[n]) THEN "loading"
  ELSE IF delivery[n] = "sync" THEN "mapping"
  ELSE "streaming"

\* The synchronous start of the call on the root entities: every load is
\* invoked; a collection is at hand at once, a promise is awaited, and the
\* iteration of anything else starts by asking for its first row.
DeliveryCall ==
  /\ phase = "map"
  /\ Len(loaded[root]) = Len(raw[root])
  /\ phase' = "hydrate"
  /\ loadLog' = LoadLogAfterStart(root)
  /\ keys' = KeysAfterStart(root)
  /\ pc' = [ n \in Nodes |-> IF n \in Started(relations, root)
                             THEN PcAfterLoad(n) ELSE pc[n] ]
  /\ raw' = [ c \in Levels |->
                IF c \in Started(relations, root) /\ pc'[c] = "mapping"
                THEN LoadRows(db, keys'[c], Rel[c].otherTable, Rel[c].otherField)
                ELSE raw[c] ]
  /\ call' = [call EXCEPT ![root] = "pending"]
  /\ UNCHANGED << op, builder, shape, db, root, relations, given, result, loaded,
                  heap, reason, err, queries, nfaults, value, fetchLog, delivery >>

\* for await: the loop asks its source for the next row.  A source that is
\* not iterable throws; an asynchronous sequence yields its next row, or
\* reports that it is done.
StreamYield(n) ==
  /\ pc[n] = "streaming"
  /\ Len(loaded[n]) = Len(raw[n])
  /\ IF ~Iterable(delivery[n])
     THEN /\ Throw(n, Error(n, "iterate"))
          /\ UNCHANGED raw
     ELSE IF Len(raw[n]) < Len(Source(n))
     THEN /\ raw' = [raw EXCEPT ![n] = Append(@, Source(n)[Len(@) + 1])]
          /\ UNCHANGED << pc, call, reason, result, value, err >>
     ELSE /\ pc' = [pc EXCEPT ![n] = "mapping"]
          /\ UNCHANGED << raw, call, reason, result, value, err >>
  /\ UNCHANGED << op, builder, shape, db, root, relations, given, phase, loaded,
                  heap, loadLog, keys, queries, nfaults, fetchLog, delivery >>

\* for await: the asynchronous sequence rejects instead of yielding.
StreamFail(n) ==
  /\ pc[n] = "streaming"
  /\ Len(loaded[n]) = Len(raw[n])
  /\ Iterable(delivery[n])
  /\ nfaults < MaxFaults
  /\ nfaults' = nfaults + 1
  /\ Throw(n, Error(n, "load"))
  /\ UNCHANGED << op, builder, shape, db, root, relations, given, phase, raw,
                  loaded, heap, loadLog, keys, queries, fetchLog, delivery >>

NextDelivery ==
  \/ DeliveryCall
  \/ \E n \in Nodes : LoadResolve(n)
  \/ \E n \in Nodes : LoadFail(n)
  \/ \E n \in Nodes : StreamYield(n)
  \/ \E n \in Nodes : StreamFail(n)
  \/ \E n \in Nodes : BranchMapStep(n)
  \/ \E n \in Nodes : BranchMapFail(n)
  \/ \E n \in Nodes : BranchAttach(n)
  \/ \E n \in Nodes : BranchAttachFail(n)

SpecDelivery == InitDelivery /\ [][NextDelivery]_vars

\* ------------------------------------------------------------------ C22
\* C22: the outcome does not depend on how load delivers its rows.  For a
\* collection, a promise of one and an asynchronous sequence alike, the
\* entities loaded so far are the entities of the first rows of the load's
\* result, in that order; a finished branch has loaded all of them and has
\* written, on every entity of the level, the accessor's value over them;
\* and no branch fails unless a load, a conversion or an attach has failed.
C22_OutcomeIndependentOfDelivery ==
  \A n \in relations :
    /\ Len(loaded[n]) <= Len(Source(n))
    /\ \A i \in DOMAIN loaded[n] :
         /\ loaded[n][i] = << n, i >>
         /\ heap[loaded[n][i]] = toEntity(Source(n)[i])
    /\ pc[n] = "done" =>
         /\ loaded[n] = RefsOf(n, Source(n))
         /\ \A e \in Range(loaded[root]) :
              heap[e][Rel[n].key] = Accessor(n, heap, RefsOf(n, Source(n)), e)
    /\ pc[n] = "failed" => nfaults >= 1
    /\ result = "resolved" => pc[n] = "done"

\* A resolved call with two entries, one delivered as a collection and one
\* as an asynchronous sequence, each with a row attached.
C22_Witness ==
  /\ result = "resolved"
  /\ \E n, m \in relations :
       /\ delivery[n] = "sync"
       /\ delivery[m] = "iterable"
       /\ loaded[n] # << >>
       /\ loaded[m] # << >>
       /\ \E e \in Range(loaded[root]) : heap[e][Rel[m].key] # NullV


\* ------------------------------------------------------------------ C23
\* Several loaded entities of entry n share the join key of the entity e.
Duplicated(n, e) == Len(Matching(n, e)) >= 2

\* C23: when several loaded entities of a hasOne relationship share one
\* otherField value, the entity attached for that key is the last of them
\* in load order, and the duplicate raises no error: the branch fails only
\* with the error of a load, a conversion or an attach that was made to fail.
C23_HasOneLastWriteWins ==
  \A n \in relations :
    Rel[n].kind = "one" =>
      /\ pc[n] = "done" =>
           \A e \in Range(LevelEntities(n)) :
             Matching(n, e) # << >> =>
               heap[e][Rel[n].key] = OneV(Matching(n, e)[Len(Matching(n, e))])
      /\ (pc[n] = "failed" /\ \E e \in Range(LevelEntities(n)) : Duplicated(n, e))
           => err[n].stage \in {"load", "toEntity", "attach"} /\ nfaults >= 1

\* A finished hasOne entry with two loaded entities of one key: the local
\* entity of that key carries the second, not the first.
C23_Witness ==
  \E n \in relations :
    /\ Rel[n].kind = "one"
    /\ pc[n] = "done"
    /\ \E e \in Range(LevelEntities(n)) :
         /\ Duplicated(n, e)
         /\ heap[e][Rel[n].key] = OneV(Matching(n, e)[2])
         /\ heap[e][Rel[n].key] # OneV(Matching(n, e)[1])


\* ------------------------------------------------------------------ C24
\* The error values raised inside the branches: by a load, by a toEntity
\* or by an attach of the entry the value names.
Raised == { err[n] : n \in { m \in relations : pc[m] = "failed" /\ err[m].at = m } }

BranchMoves(n) ==
  { << "idle", "loading" >>, << "loading", "mapping" >>, << "loading", "failed" >>,
    << "mapping", "failed" >> }
  \cup (IF Subrelations(relations, n) # {}
        THEN { << "mapping", "nested" >>, << "nested", "done" >>,
               << "nested", "failed" >> }
        ELSE { << "mapping", "done" >> })

\* No entity of the level of entry n carries the key of n.
NotAttached(n) == \A e \in Range(LevelEntities(n)) : ~Carries(e, n)

\* What holds of a branch at each of its positions.
BranchOrder(n) ==
  /\ pc[n] = "idle" =>
       loadLog[n] = << >> /\ raw[n] = << >> /\ loaded[n] = << >>
  /\ pc[n] = "loading" => Len(loadLog[n]) = 1 /\ loaded[n] = << >>
  /\ pc[n] \in {"idle", "loading", "mapping"} => call[n] = "none"
  /\ pc[n] = "nested" =>
       /\ Len(loaded[n]) = Len(raw[n])
       /\ call[n] # "none"
  /\ pc[n] \in {"idle", "loading", "mapping", "nested", "failed"} => NotAttached(n)
  /\ pc[n] = "done" =>
       /\ Len(loadLog[n]) = 1
       /\ Len(loaded[n]) = Len(raw[n])
       /\ Subrelations(relations, n) # {} =>
            /\ call[n] = "resolved"
            /\ \A m \in Subrelations(relations, n) : pc[m] = "done"
       /\ \A e \in Range(LevelEntities(n)) : Carries(e, n)
  /\ Subrelations(relations, n) = {} => call[n] = "none"

\* C25: within the branch of one key the steps come strictly in the order
\* load, conversion of every row, nested hydration (only when the entry
\* has subrelations, and completed before attach), attach, assignment on
\* every entity.  A branch moves only along that order; attach with its
\* assignments happens in one step, once, after which the branch and the
\* properties it wrote do not change; without subrelations no nested call
\* is ever started.
C25_BranchStepsInOrder ==
  /\ [](\A n \in relations : BranchOrder(n))
  /\ [][\A n \in relations :
          /\ pc'[n] # pc[n] => << pc[n], pc'[n] >> \in BranchMoves(n)
          /\ pc[n] = "done" =>
               /\ pc'[n] = "done"
               /\ \A e \in Range(LevelEntities(n)) :
                    heap'[e][Rel[n].key] = heap[e][Rel[n].key]]_vars

\* A branch with subrelations has attached on two entities after its
\* nested call resolved over loaded entities of its own.
C25_Witness ==
  \E n \in relations :
    /\ Subrelations(relations, n) # {}
    /\ pc[n] = "done"
    /\ call[n] = "resolved"
    /\ Len(LevelEntities(n)) >= 2
    /\ \E e \in Range(LevelEntities(n)) : heap[e][Rel[n].key].refs # << >>
    /\ \E m \in Subrelations(relations, n) : loaded[m] # << >>


\* ------------------------------------------------------------------ C26
\* C26: loadOne raises its "single row" error whenever the awaited fetch
\* result is an array, of any length (empty and one-element arrays too):
\* after the fetch the call is rejected with that error, no toEntity has
\* run (no entity exists), no load was invoked and no call was started.
C26_ArrayRejectsLoadOne ==
  (op = "getOne" /\ shape = "array" /\ phase # "fetch"
     /\ reason[root].stage # "fetch") =>
    /\ phase = "returned"
    /\ result = "rejected"
    /\ reason[root] = Error(0, "shape")
    /\ value = UndefinedV
    /\ heap = << >>
    /\ \A c \in Levels : raw[c] = << >> /\ loaded[c] = << >> /\ call[c] = "none"
    /\ \A n \in Nodes : loadLog[n] = << >> /\ pc[n] = "idle"
    /\ queries = 1

\* loadOne with a relations map was rejected for an empty array.
C26_Witness ==
  /\ op = "getOne"
  /\ shape = "array"
  /\ Len(Matches) = 0
  /\ relations # {}
  /\ result = "rejected"
  /\ reason[root] = Error(0, "shape")


\* ------------------------------------------------------ mapArrayToEntity
\* mapArrayToEntity(entityDef, arr) on its own, with the start and the end
\* of each conversion apart: raw[root] holds the elements taken from arr so
\* far (toEntity is called on an element as it is taken), loaded[root] the
\* entities of the conversions that have completed.
InitMap ==
  /\ root \in Roots
  /\ relations = {}
  /\ given = FALSE
  /\ db \in Databases({LevelTable(root)})
  /\ op = "mapArrayToEntity"
  /\ builder = {}
  /\ shape = "array"
  /\ phase = "map"
  /\ result = "pending"
  /\ raw = [c \in Levels |-> << >>]
  /\ loaded = [c \in Levels |-> << >>]
  /\ heap = << >>
  /\ pc = [n \in Nodes |-> "idle"]
  /\ call = [c \in Levels |-> "none"]
  /\ reason = [c \in Levels |-> NoError]
  /\ err = [n \in Nodes |-> NoError]
  /\ loadLog = [n \in Nodes |-> << >>]
  /\ keys = [n \in Nodes |-> {}]
  /\ queries = 0
  /\ nfaults = 0
  /\ value = UndefinedV
  /\ fetchLog = [n \in Nodes |-> << >>]
  /\ delivery = [n \in Nodes |-> "promise"]

\* The elements of arr.
MapSource == db[LevelTable(root)]

\* A loop that takes the next element while conversions are under way.
CanPullAlways(taken, converted) == TRUE

\* for await (...) { result.push(await toEntity(data)) }: the loop takes
\* the next element once the conversion of the previous one has returned.
CanPull(taken, converted) == taken = converted

\* The loop takes the next element of arr and calls toEntity on it.
MapPull ==
  /\ phase = "map"
  /\ CanPull(Len(raw[root]), Len(loaded[root]))
  /\ Len(raw[root]) < Len(MapSource)
  /\ raw' = [raw EXCEPT ![root] = Append(@, MapSource[Len(@) + 1])]
  /\ UNCHANGED << op, builder, shape, db, root, relations, given, phase, result,
                  loaded, heap, pc, call, reason, err, loadLog, keys, queries,
                  nfaults, value, fetchLog, delivery >>

\* A conversion under way returns its entity, which is pushed.
MapConverted ==
  /\ phase = "map"
  /\ Len(loaded[root]) < Len(raw[root])
  /\ LET i == Len(loaded[root]) + 1
         ref == << root, i >>
     IN  /\ loaded' = [loaded EXCEPT ![root] = Push(@, ref)]
         /\ heap' = (ref :> toEntity(raw[root][i])) @@ heap
  /\ UNCHANGED << op, builder, shape, db, root, relations, given, phase, result,
                  raw, pc, call, reason, err, loadLog, keys, queries, nfaults,
                  value, fetchLog, delivery >>

\* A conversion under way throws or rejects: mapArrayToEntity rejects.
MapConvertFail ==
  /\ phase = "map"
  /\ Len(loaded[root]) < Len(raw[root])
  /\ nfaults < MaxFaults
  /\ nfaults' = nfaults + 1
  /\ phase' = "returned"
  /\ result' = "rejected"
  /\ reason' = [reason EXCEPT ![root] = Error(0, "toEntity")]
  /\ UNCHANGED << op, builder, shape, db, root, relations, given, raw, loaded,
                  heap, pc, call, err, loadLog, keys, queries, value, fetchLog,
                  delivery >>

\* arr has no further element: return result.
MapReturn ==
  /\ phase = "map"
  /\ CanPull(Len(raw[root]), Len(loaded[root]))
  /\ Len(raw[root]) = Len(MapSource)
  /\ Len(loaded[root]) = Len(raw[root])
  /\ phase' = "returned"
  /\ result' = "resolved"
  /\ value' = ManyV(loaded[root])
  /\ UNCHANGED << op, builder, shape, db, root, relations, given, raw, loaded,
                  heap, pc, call, reason, err, loadLog, keys, queries, nfaults,
                  fetchLog, delivery >>

NextMap ==
  \/ MapPull
  \/ MapConverted
  \/ MapConvertFail
  \/ MapReturn

SpecMap == InitMap /\ [][NextMap]_vars

\* ------------------------------------------------------------------ C27
\* The conversions started and not yet completed.
UnderWay == Len(raw[root]) - Len(loaded[root])

\* C27: mapArrayToEntity converts sequentially.  At most one toEntity is
\* under way, so the conversion of element i+1 does not start before that
\* of element i has completed; an element is taken from the source only
\* when everything taken before it has been converted (the source is never
\* read ahead), and entity i is the entity of element i; a failing
\* conversion rejects the call with its error, after which no step is
\* taken, so no later element is taken or converted.
C27_ConversionsAreSequential ==
  /\ [](/\ UnderWay \in {0, 1}
        /\ \A i \in DOMAIN raw[root] : raw[root][i] = MapSource[i]
        /\ \A i \in DOMAIN loaded[root] :
             /\ loaded[root][i] = << root, i >>
             /\ heap[loaded[root][i]] = toEntity(MapSource[i])
        /\ DOMAIN heap = Range(loaded[root])
        /\ result = "rejected" =>
             /\ phase = "returned"
             /\ reason[root] = Error(0, "toEntity")
             /\ UnderWay = 1
        /\ result = "resolved" =>
             /\ phase = "returned"
             /\ value = ManyV(RefsOf(root, MapSource)))
  /\ [][result = "pending" /\ phase = "map"]_vars

\* The first of two elements is converted and pushed while the second has
\* not yet been taken from the source.
C27_Witness ==
  /\ Len(MapSource) >= 2
  /\ UnderWay = 0
  /\ Len(loaded[root]) = 1
  /\ phase = "map"


\* ------------------------------------------------------------------ C28
\* The load of entry n is invoked in this step.
LoadStep(n) == loadLog'[n] # loadLog[n]

\* The relations map entry n belongs to.
MapOf(n) == Subrelations(relations, Rel[n].parent)

\* C28: every load of a relations map is invoked before any attach or
\* assignment of that map.  The loads of a map are invoked in one step, on
\* the list of the entities of the level, and at that point (before and
\* after the step) no entity passed carries a key of the map; and when a
\* branch attaches, every load of its map has been invoked.
C28_LoadsBeforeAnyAttach ==
  [][\A n \in relations :
       /\ LoadStep(n) =>
            /\ \A m \in MapOf(n) : LoadStep(m)
            /\ loadLog'[n] = << LevelEntities(n) >>
            /\ \A e \in Range(LevelEntities(n)) :
                 \A m \in MapOf(n) :
                   /\ Rel[m].key \notin DOMAIN heap[e]
                   /\ Rel[m].key \notin DOMAIN heap'[e]
       /\ AttachStep(n) => \A m \in MapOf(n) : loadLog[m] # << >>
    ]_vars

\* One branch has attached on two entities while the load of another key
\* of its map, invoked with it on the same entities, is still awaited.
C28_Witness ==
  \E n, m \in relations :
    /\ n # m
    /\ m \in MapOf(n)
    /\ pc[n] = "done"
    /\ pc[m] = "loading"
    /\ Len(LevelEntities(n)) >= 2
    /\ loadLog[m] = << LevelEntities(n) >>
    /\ \E e \in Range(LevelEntities(n)) : Carries(e, n) /\ ~Carries(e, m)


\* ------------------------------------------------------------------ C29
\* What a call yields, computed from its inputs alone (the database, the
\* root level and the relations map), level by level and in no particular
\* order of completion.  The rows of level c: the root table, or what the
\* load of entry c fetches for the join keys of the rows of its parent.
RECURSIVE ExpectedRows(_)
ExpectedRows(c) ==
  IF c = root THEN db[LevelTable(root)]
  ELSE LET up == ExpectedRows(Rel[c].parent)
       IN  LoadRows(db, { up[i][Rel[c].localField] : i \in DOMAIN up },
                    Rel[c].otherTable, Rel[c].otherField)

\* The positions, in order, of the rows of entry n that join the row.
JoinedAt(n, row) ==
  SelectSeq([ i \in DOMAIN ExpectedRows(n) |-> i ],
            LAMBDA i : ExpectedRows(n)[i][Rel[n].otherField] = row[Rel[n].localField])

\* The value of the property of entry n on the entity of the row.
ExpectedValue(n, row) ==
  LET at == JoinedAt(n, row)
  IN  IF Rel[n].kind = "many"
      THEN ManyV([ j \in DOMAIN at |-> << n, at[j] >> ])
      ELSE IF at = << >> THEN NullV ELSE OneV(<< n, at[Len(at)] >>)

\* The entity of row i of level c: its columns and one property per entry
\* of the level's relations map.
ExpectedEntity(c, i) ==
  LET row == ExpectedRows(c)[i]
      subs == Subrelations(relations, c)
  IN  [ k \in DOMAIN row \cup { Rel[m].key : m \in subs } |->
          IF k \in DOMAIN row THEN row[k]
          ELSE ExpectedValue(CHOOSE m \in subs : Rel[m].key = k, row) ]

\* The objects of a hydrated call: one per row of each level.
ExpectedHeap ==
  [ r \in UNION { { << c, i >> : i \in DOMAIN ExpectedRows(c) } :
                    c \in {root} \cup relations }
      |-> ExpectedEntity(r[1], r[2]) ]

\* C29: the entities after a successful call are the same for every order
\* in which the loads of concurrent branches complete.  Whatever the
\* interleaving that led to it, a resolved call has left exactly the
\* objects, lists and property values computed from the database, the root
\* level and the relations map alone; load and attach here read only the
\* join-key fields, as hasOne and hasMany do.
C29_FinalStateIndependentOfOrder ==
  Hydrated =>
    /\ heap = ExpectedHeap
    /\ \A c \in {root} \cup relations : loaded[c] = RefsOf(c, ExpectedRows(c))
    /\ value = ManyV(RefsOf(root, ExpectedRows(root)))

\* A resolved call over a map with two keys on one level and a nested
\* entry, whose branches could complete in several orders, with related
\* entities attached.
C29_Witness ==
  /\ Hydrated
  /\ Cardinality(RequestedKeys) >= 2
  /\ \E n \in relations : Rel[n].parent # root /\ loaded[n] # << >>
  /\ \A n \in RequestedKeys : loaded[n] # << >>
  /\ heap = ExpectedHeap


\* ------------------------------------------------------------------ C30
\* The keys of the relations map of level c.
KeysOf(c) == { Rel[m].key : m \in Subrelations(relations, c) }

\* C30: the call changes, on the entities of a level, only the properties
\* named by the keys of that level's relations map.  Every object keeps
\* every column of its row with the row's value (the join keys among
\* them) and has no property besides its columns and keys of its level's
\* map; with an empty relations map no load is invoked, no entity is
\* changed and the call resolves with the entities as they were given.
C30_OnlyRequestedKeysChange ==
  /\ \A r \in DOMAIN heap :
       LET row == raw[r[1]][r[2]]
       IN  /\ DOMAIN row \subseteq DOMAIN heap[r]
           /\ \A k \in DOMAIN row : heap[r][k] = row[k]
           /\ DOMAIN heap[r] \ DOMAIN row \subseteq KeysOf(r[1])
  /\ relations = {} =>
       /\ \A n \in Nodes : loadLog[n] = << >> /\ pc[n] = "idle"
       /\ \A c \in Levels \ {root} : raw[c] = << >> /\ loaded[c] = << >>
       /\ queries = 1
       /\ heap = EntitiesOf(root, raw[root])
       /\ phase # "map" => (result = "resolved" /\ value = ManyV(EntitiesGiven))

\* A resolved call with a nested entry: an entity of the nested level
\* carries its map's key next to its unchanged join keys, and a root
\* entity carries the root map's keys only.
C30_Witness ==
  /\ Hydrated
  /\ \E n \in relations :
       /\ Subrelations(relations, n) # {}
       /\ \E r \in Range(loaded[n]) :
            /\ DOMAIN heap[r] = DOMAIN raw[n][r[2]] \cup KeysOf(n)
            /\ heap[r][Rel[n].otherField] = raw[n][r[2]][Rel[n].otherField]
       /\ \E e \in Range(loaded[root]) :
            DOMAIN heap[e] = DOMAIN raw[root][e[2]] \cup KeysOf(root)
====
